---- MODULE Spec2Model ----
(***************************************************************************)
(* Q-A-chatbot: the ingestion / deletion / reset / ask handlers of          *)
(* dev/apis/main.py over the two stores they coordinate: the SQLite         *)
(* `documents` table and the ChromaDB collection of chunk records.          *)
(*                                                                          *)
(* Every handler is split at its store calls.  Each store call either      *)
(* takes effect or raises; collection.add may raise after storing part of   *)
(* its batch.                                                               *)
(*                                                                          *)
(* Spec serves one request at a time: the handlers are `async def` bodies   *)
(* with no await between their store calls, and start_script.py runs one    *)
(* uvicorn process, so a handler runs to its response before the next one   *)
(* starts.  A handler holds no lock across its store calls and both stores  *)
(* live on disk (the SQLite file is opened in WAL mode with a busy timeout, *)
(* the collection by a PersistentClient), so requests served by different   *)
(* workers interleave between store calls: SpecInterleaved and              *)
(* SpecIngestDelete.                                                        *)
(***************************************************************************)
EXTENDS Integers, FiniteSets, Sequences, TLC

\* ------------------------------------------------------------------ bounds
MaxDocs == 2          \* rows the AUTOINCREMENT counter hands out in a run
MaxChunks == 2        \* chunks process_file returns for one document
MaxRequests == 3      \* requests served in a run
MaxTextLen == 7       \* characters of a text handed to _simple_chunk_text
MaxIterations == 9    \* iterations of the chunker's loop followed in a run
MaxWords == 3         \* words of an answer handed to _calculate_confidence
MaxStem == 3          \* characters of a filename before its extension

Users == {1, 2}
Procs == {1, 2}
DocIds == 1..MaxDocs

\* ------------------------------------------------------- program constants
max_chunks == 3       \* QAService.ask_question(max_chunks=3)

VARIABLES
    documents,        \* rows of the SQL table `documents`
    lastrowid,        \* AUTOINCREMENT counter of `documents`
    collection,       \* records of the Chroma collection
    collection_alive, \* the collection behind self.collection still exists
    rq,               \* per request slot: the handler's position and locals
    last,             \* the response returned by the step just taken, if any
    history,          \* what has happened so far (observation only)
    ck,               \* the run of _simple_chunk_text: its arguments and locals
    call              \* a service function called directly: arguments and result

vars == <<documents, lastrowid, collection, collection_alive, rq, last, history,
          ck, call>>

\* ------------------------------------------------------------------ stores
Row(id, u, n) == [id |-> id, user_id |-> u, chunks_count |-> n]

\* one decimal digit as a character
Digit(k) ==
    CASE k = 0 -> "0" [] k = 1 -> "1" [] k = 2 -> "2" [] k = 3 -> "3"
      [] k = 4 -> "4" [] k = 5 -> "5" [] k = 6 -> "6" [] k = 7 -> "7"
      [] k = 8 -> "8" [] k = 9 -> "9"

\* str(n) of an integer n >= 0, as the f-string formats it
RECURSIVE Str(_)
Str(n) == IF n < 10 THEN <<Digit(n)>> ELSE Str(n \div 10) \o <<Digit(n % 10)>>

\* an id that puts the three numbers side by side
ChunkId_Glued(u, d, i) == Str(u) \o Str(d) \o Str(i)

\* chunk_id = f"{user_id}_{document_id}_{i}"
ChunkId(u, d, i) == Str(u) \o <<"_">> \o Str(d) \o <<"_">> \o Str(i)

\* one stored record: id and metadata as add_document writes them, and (as
\* observation only) the caller whose upload stored it
Record(u, d, i) ==
    [id |-> ChunkId(u, d, i), user_id |-> u, document_id |-> d, chunk_index |-> i,
     ingested_by |-> 0]

IngestedBy(recs, u) == {[c EXCEPT !.ingested_by = u] : c \in recs}

\* a SELECT that leaves the user out of its WHERE clause
SelectDocument_AnyUser(docs, d, u) == {r \in docs : r.id = d}

\* a handler that goes on without looking at what the SELECT fetched
SelectDocument_Unchecked(docs, d, u) == {Row(d, u, 0)}

\* SELECT ... FROM documents WHERE id = ? AND user_id = ?
SelectDocument(docs, d, u) == {r \in docs : r.id = d /\ r.user_id = u}

\* a COUNT that leaves the user out of its WHERE clause
CountDocuments_AllUsers(docs, u) == Cardinality(docs)

\* SELECT COUNT(*) FROM documents WHERE user_id = ?
CountDocuments(docs, u) == Cardinality({r \in docs : r.user_id = u})

\* a DELETE whose WHERE clause matches no row
DeleteById_NoMatch(docs, d) == docs

\* DELETE FROM documents WHERE id = ?
DeleteById(docs, d) == {r \in docs : r.id # d}

\* DELETE FROM documents WHERE id = ? AND user_id = ?
DeleteByIdAndUser(docs, d, u) == {r \in docs : ~(r.id = d /\ r.user_id = u)}

\* UPDATE documents SET chunks_count = ? WHERE id = ?
UpdateChunksCount(docs, d, n) ==
    {IF r.id = d THEN Row(r.id, r.user_id, n) ELSE r : r \in docs}

\* collection.get(where={"user_id": u, "document_id": d})
GetChunks(coll, u, d) == {c \in coll : c.user_id = u /\ c.document_id = d}

\* a query without the where clause
QueryFilter_NoWhere(coll, u) == coll

\* collection.query(where={"user_id": u}): the records the filter lets through
QueryFilter(coll, u) == {c \in coll : c.user_id = u}

\* the records add_document builds for doc_chunks of length n
BuildRecords(u, d, n) == {Record(u, d, i) : i \in 0..(n - 1)}

\* a store that files a record whose id is already stored under a new id
AddRecords_Append(coll, recs) ==
    coll \cup {IF \E e \in coll : e.id = c.id
                THEN [c EXCEPT !.id = ChunkId(c.user_id, c.document_id,
                                              c.chunk_index + 1000)]
                ELSE c : c \in recs}

\* collection.add(ids=...): a record whose id is already stored is kept as is
AddRecords(coll, recs) ==
    coll \cup {c \in recs : \A e \in coll : e.id # c.id}

\* ---------------------------------------------------------------- requests
Idle ==
    [pc |-> "idle", op |-> "none", user_id |-> 0, document_id |-> 0,
     success |-> FALSE, chunks_created |-> 0, status |-> 0,
     sql_deleted |-> 0, vector_chunks_deleted |-> 0,
     answer |-> "none", results |-> {}, retrieved_chunks |-> 0,
     confidence_score |-> 0, llm_called |-> FALSE,
     n_results |-> 0, raised |-> "none", credentials |-> "none",
     compensated |-> FALSE, failed |-> {}, repeat |-> FALSE,
     after_failed_ingest |-> FALSE, filename |-> "none", size |-> 0]

NoHistory ==
    [started |-> 0, store_failed |-> FALSE, ingest_failed |-> {}, deleted |-> {}]

\* no text is being chunked
NotChunking ==
    [pc |-> "idle", text |-> <<>>, chunk_size |-> 0, overlap |-> 0,
     start |-> 0, end |-> 0, chunks |-> <<>>, result |-> <<>>, raised |-> "none",
     windows |-> <<>>]

\* both stores empty, no request in flight
InitStores ==
    /\ documents = {}
    /\ lastrowid = 0
    /\ collection = {}
    /\ collection_alive = TRUE
    /\ rq = [p \in Procs |-> Idle]
    /\ last = Idle
    /\ history = NoHistory

\* no service function has been called directly
NoCall == [fn |-> "none", pc |-> "idle", args |-> <<>>, result |-> <<>>]

Init ==
    /\ InitStores
    /\ ck = NotChunking
    /\ call = NoCall

\* the handler of slot p moves on with locals r
Set(p, r) ==
    /\ rq' = [rq EXCEPT ![p] = r]
    /\ last' = Idle
    /\ ck' = ck
    /\ call' = call

\* the handler of slot p returns r to its caller
Respond(p, r) ==
    /\ rq' = [rq EXCEPT ![p] = Idle]
    /\ last' = [r EXCEPT !.pc = "done"]
    /\ ck' = ck
    /\ call' = call

\* a request arrives and takes the first idle slot, p
Arrives(p) ==
    /\ rq[p].pc = "idle"
    /\ \A q \in Procs : q < p => rq[q].pc # "idle"
    /\ history.started < MaxRequests

\* the history after this step: one more request started (s), a store call
\* raised (f)
Seen(s, f) ==
    [history EXCEPT !.started = IF s THEN @ + 1 ELSE @,
                    !.store_failed = @ \/ f]

\* ------------------------------------------------------------ POST /upload
\* settings.max_file_size_mb
max_file_size_mb == 10

\* main.py 346: settings.max_file_size_mb * 1024 * 1024
max_size == max_file_size_mb * 1024 * 1024

\* the files uploaded: a name and the length of the content
Files ==
    {[filename |-> "a.txt", size |-> 12],
     [filename |-> "a.PDF", size |-> max_size],
     [filename |-> "a.docx", size |-> 12],
     [filename |-> "a", size |-> 12],
     [filename |-> "a.txt", size |-> max_size + 1]}

\* main.py 337: os.path.splitext(file.filename)[1].lower()
file_extension(filename) ==
    CASE filename = "a.txt" -> ".txt"
      [] filename = "a.PDF" -> ".pdf"
      [] filename = "a.docx" -> ".docx"
      [] filename = "a" -> ""

\* main.py 336
allowed_types == {".txt", ".pdf"}

\* a validation that looks at the size only
Rejected_SizeOnly(file) == file.size > max_size

\* main.py 338-351: the file is turned away with HTTP 400
Rejected(file) ==
    \/ file_extension(file.filename) \notin allowed_types
    \/ file.size > max_size

\* main.py 335-381: validation, then INSERT INTO documents (..., chunks_count = 0)
UploadInsert(p, u) ==
    /\ Arrives(p)
    /\ \E file \in Files :
         LET r == [Idle EXCEPT !.op = "upload", !.user_id = u,
                               !.filename = file.filename, !.size = file.size]
         IN \/ /\ Rejected(file)
               /\ Respond(p, [r EXCEPT !.status = 400])
               /\ history' = Seen(TRUE, FALSE)
               /\ UNCHANGED <<lastrowid, documents>>
            \/ /\ ~Rejected(file)
               /\ lastrowid < MaxDocs
               /\ lastrowid' = lastrowid + 1
               /\ documents' = documents \cup {Row(lastrowid + 1, u, 0)}
               /\ Set(p, [r EXCEPT !.pc = "process",
                                   !.document_id = lastrowid + 1])
               /\ history' = Seen(TRUE, FALSE)
            \/ /\ ~Rejected(file)
               /\ lastrowid < MaxDocs
               /\ Respond(p, [r EXCEPT !.status = 500, !.failed = {"sql"}])
               /\ history' = Seen(TRUE, TRUE)
               /\ UNCHANGED <<lastrowid, documents>>
    /\ UNCHANGED <<collection, collection_alive>>

\* qa_service.py 43-83: the result dictionary of process_document
ProcessResult(r, ok, n) ==
    [r EXCEPT !.pc = IF ok THEN "update" ELSE "cleanup",
              !.success = ok, !.chunks_created = IF ok THEN n ELSE 0]

\* DocumentService.process_file(file_path): it raises (-1) or returns chunks
process_file == {-1} \cup (0..MaxChunks)

\* main.py 385-390 -> QAService.process_document -> VectorService.add_document
UploadProcess(p) ==
    LET r == rq[p] IN
    /\ r.pc = "process"
    /\ \E n \in process_file :
         LET recs == IngestedBy(BuildRecords(r.user_id, r.document_id, n),
                                r.user_id)
         IN
         \/ \* process_file raises, or returns no chunk
            /\ n < 1
            /\ Set(p, ProcessResult(r, FALSE, 0))
            /\ UNCHANGED <<collection, history>>
         \/ \* embedding_model.encode raises
            /\ n >= 1
            /\ Set(p, [ProcessResult(r, FALSE, 0) EXCEPT !.failed = {"embedding"}])
            /\ UNCHANGED <<collection, history>>
         \/ \* collection.add stores the batch
            /\ n >= 1
            /\ collection_alive
            /\ collection' = AddRecords(collection, recs)
            /\ Set(p, ProcessResult(r, TRUE, n))
            /\ UNCHANGED history
         \/ \* collection.add raises after storing part of the batch
            /\ n >= 1
            /\ \E k \in 0..(n - 1) :
                 /\ collection_alive \/ k = 0
                 /\ collection' = AddRecords(collection,
                                      {c \in recs : c.chunk_index < k})
            /\ Set(p, [ProcessResult(r, FALSE, 0) EXCEPT !.failed = {"vector"}])
            /\ history' = Seen(FALSE, TRUE)
    /\ UNCHANGED <<documents, lastrowid, collection_alive>>

\* main.py 392-399: DELETE the row, then raise HTTPException(400) -- which the
\* `except Exception` of line 416 catches, as it catches a failed DELETE
UploadCleanup(p) ==
    LET r == rq[p] IN
    /\ r.pc = "cleanup"
    /\ \/ /\ documents' = DeleteById(documents, r.document_id)
          /\ Set(p, [r EXCEPT !.pc = "except", !.compensated = TRUE])
          /\ UNCHANGED history
       \/ /\ Set(p, [r EXCEPT !.pc = "except", !.failed = @ \cup {"sql"}])
          /\ history' = Seen(FALSE, TRUE)
          /\ UNCHANGED documents
    /\ UNCHANGED <<lastrowid, collection, collection_alive>>

IngestFailed(h, r) ==
    [h EXCEPT !.ingest_failed = @ \cup {<<r.user_id, r.document_id>>}]

\* main.py 416-423: DELETE the row again, raise HTTPException(500); a failed
\* DELETE leaves the handler with the sqlite3.Error, a 500 as well
UploadExcept(p) ==
    LET r == rq[p] IN
    /\ r.pc = "except"
    /\ \/ /\ documents' = DeleteById(documents, r.document_id)
          /\ Respond(p, [r EXCEPT !.status = 500, !.compensated = TRUE])
          /\ history' = IngestFailed(history, r)
       \/ /\ Respond(p, [r EXCEPT !.status = 500, !.failed = @ \cup {"sql"}])
          /\ history' = IngestFailed(Seen(FALSE, TRUE), r)
          /\ UNCHANGED documents
    /\ UNCHANGED <<lastrowid, collection, collection_alive>>

\* main.py 401-430: UPDATE chunks_count; a failed UPDATE is only printed
UploadUpdate(p) ==
    LET r == rq[p] IN
    /\ r.pc = "update"
    /\ \/ /\ documents' = UpdateChunksCount(documents, r.document_id, r.chunks_created)
          /\ Respond(p, [r EXCEPT !.status = 200])
          /\ UNCHANGED history
       \/ /\ Respond(p, [r EXCEPT !.status = 200, !.failed = {"sql"}])
          /\ history' = Seen(FALSE, TRUE)
          /\ UNCHANGED documents
    /\ UNCHANGED <<lastrowid, collection, collection_alive>>

\* ------------------------------------------- DELETE /documents/{document_id}
\* main.py 523-539: SELECT the row of (document_id, user_id); 404 without one
DeleteSelect(p, u, d) ==
    LET r == [Idle EXCEPT !.op = "delete", !.user_id = u, !.document_id = d,
                          !.repeat = (<<u, d>> \in history.deleted),
                          !.after_failed_ingest =
                              (<<u, d>> \in history.ingest_failed)]
    IN
    /\ Arrives(p)
    /\ \/ /\ SelectDocument(documents, d, u) # {}
          /\ Set(p, [r EXCEPT !.pc = "vector"])
          /\ history' = Seen(TRUE, FALSE)
       \/ /\ SelectDocument(documents, d, u) = {}
          /\ Respond(p, [r EXCEPT !.status = 404])
          /\ history' = Seen(TRUE, FALSE)
       \/ /\ Respond(p, [r EXCEPT !.status = 500, !.failed = {"sql"}])
          /\ history' = Seen(TRUE, TRUE)
    /\ UNCHANGED <<documents, lastrowid, collection, collection_alive>>

\* vector_service.py 175-210: get the ids under (user_id, document_id), delete
\* them, return how many; any failure is raised
VectorDelete(coll, u, d) == coll \ GetChunks(coll, u, d)

\* main.py 541-549 -> qa_service.py 201-227: a raised failure becomes
\* {"success": False, "chunks_deleted": 0}; the handler reads chunks_deleted
DeleteVector(p) ==
    LET r == rq[p] IN
    /\ r.pc = "vector"
    /\ \/ /\ collection_alive
          /\ collection' = VectorDelete(collection, r.user_id, r.document_id)
          /\ Set(p, [r EXCEPT !.pc = "sql",
                 !.vector_chunks_deleted =
                     Cardinality(GetChunks(collection, r.user_id, r.document_id))])
          /\ UNCHANGED history
       \/ /\ Set(p, [r EXCEPT !.pc = "sql", !.vector_chunks_deleted = 0,
                              !.failed = {"vector"}])
          /\ history' = Seen(FALSE, TRUE)
          /\ UNCHANGED collection
    /\ UNCHANGED <<documents, lastrowid, collection_alive>>

\* main.py 551-574: DELETE the row; rowcount 0 is a 404, sqlite3.Error a 500
DeleteSql(p) ==
    LET r == rq[p]
        deleted == DeleteByIdAndUser(documents, r.document_id, r.user_id)
        rowcount == Cardinality(documents) - Cardinality(deleted)
    IN
    /\ r.pc = "sql"
    /\ \/ /\ rowcount # 0
          /\ documents' = deleted
          /\ Respond(p, [r EXCEPT !.status = 200, !.sql_deleted = rowcount])
          /\ history' = [history EXCEPT
                             !.deleted = @ \cup {<<r.user_id, r.document_id>>}]
       \/ /\ rowcount = 0
          /\ Respond(p, [r EXCEPT !.status = 404])
          /\ UNCHANGED <<documents, history>>
       \/ /\ Respond(p, [r EXCEPT !.status = 500, !.failed = @ \cup {"sql"}])
          /\ history' = Seen(FALSE, TRUE)
          /\ UNCHANGED documents
    /\ UNCHANGED <<lastrowid, collection, collection_alive>>

\* ------------------------------------------- DELETE /debug/nuclear-reset
\* what the request carries in its Authorization header: the route declares
\* no dependency that would read it
Credentials == {"admin", "none"}

\* main.py 593-595 -> vector_service.py 281-301: drop the collection and
\* create it again; returns False when either call raises
ResetVector(p) ==
    /\ Arrives(p)
    /\ \E c \in Credentials :
        LET r == [Idle EXCEPT !.op = "reset", !.pc = "reset_sql",
                              !.credentials = c]
        IN
        \/ \* delete_collection and create_collection succeed
           /\ collection_alive
           /\ collection' = {}
           /\ Set(p, [r EXCEPT !.success = TRUE])
           /\ history' = Seen(TRUE, FALSE)
           /\ UNCHANGED collection_alive
        \/ \* delete_collection raises
           /\ Set(p, [r EXCEPT !.failed = {"vector"}])
           /\ history' = Seen(TRUE, TRUE)
           /\ UNCHANGED <<collection, collection_alive>>
        \/ \* delete_collection succeeds, create_collection raises
           /\ collection_alive
           /\ collection' = {}
           /\ collection_alive' = FALSE
           /\ Set(p, [r EXCEPT !.failed = {"vector"}])
           /\ history' = Seen(TRUE, TRUE)
    /\ UNCHANGED <<documents, lastrowid>>

\* main.py 597-625: DELETE FROM documents; any exception ends in {"error": ...}
ResetSql(p) ==
    LET r == rq[p] IN
    /\ r.pc = "reset_sql"
    /\ \/ /\ documents' = {}
          /\ Respond(p, [r EXCEPT !.status = 200,
                                  !.sql_deleted = Cardinality(documents)])
          /\ UNCHANGED history
       \/ /\ Respond(p, [r EXCEPT !.status = 200, !.answer = "error",
                                  !.failed = @ \cup {"sql"}])
          /\ history' = Seen(FALSE, TRUE)
          /\ UNCHANGED documents
    /\ UNCHANGED <<lastrowid, collection, collection_alive>>

\* ---------------------------------------------------------------- POST /ask
\* main.py 447-468: COUNT the caller's rows; none gives the canned answer
\* without calling the QA service, sqlite3.Error gives a 500
AskCount(p, u) ==
    LET r == [Idle EXCEPT !.op = "ask", !.user_id = u] IN
    /\ Arrives(p)
    /\ \/ /\ CountDocuments(documents, u) = 0
          /\ Respond(p, [r EXCEPT !.status = 200, !.answer = "no_documents"])
          /\ history' = Seen(TRUE, FALSE)
       \/ /\ CountDocuments(documents, u) # 0
          /\ Set(p, [r EXCEPT !.pc = "ask"])
          /\ history' = Seen(TRUE, FALSE)
       \/ /\ Respond(p, [r EXCEPT !.status = 500, !.failed = {"sql"}])
          /\ history' = Seen(TRUE, TRUE)
    /\ UNCHANGED <<documents, lastrowid, collection, collection_alive>>

Min(a, b) == IF a < b THEN a ELSE b

\* vector_service.py 131-173: the result lists search_similar can return: the
\* n_results nearest of the records with the caller's user_id, or [] once
\* anything raised (collection.query raises for n_results < 1)
search_similar(coll, u, n_results, raised) ==
    IF raised \/ n_results < 1 THEN {{}}
    ELSE {S \in SUBSET QueryFilter(coll, u) :
            Cardinality(S) = Min(n_results, Cardinality(QueryFilter(coll, u)))}

\* a score that leaves the context out
_calculate_confidence_NoContext(alen, uncertain, clen) ==
    IF alen < 10 THEN 10
    ELSE IF uncertain THEN 30
    ELSE IF alen > 200 THEN 90
    ELSE IF alen > 100 THEN 80
    ELSE IF alen > 50 THEN 70
    ELSE 60

\* tiers that start at 50, 100 and 200 characters instead of above them
_calculate_confidence_AtLeast(alen, uncertain, clen) ==
    IF alen < 10 THEN 10
    ELSE IF uncertain THEN 30
    ELSE LET base_confidence ==
                 IF alen >= 200 THEN 90
                 ELSE IF alen >= 100 THEN 80
                 ELSE IF alen >= 50 THEN 70
                 ELSE 60
             adjusted ==
                 IF clen < 50 THEN (base_confidence * 7) \div 10
                 ELSE base_confidence
         IN Min(adjusted, 100)

\* llm_provider.py 88-133, in hundredths: answer of alen characters (already
\* stripped), with or without an uncertainty phrase, context of clen characters
_calculate_confidence(alen, uncertain, clen) ==
    IF alen < 10 THEN 10
    ELSE IF uncertain THEN 30
    ELSE LET base_confidence ==
                 IF alen > 200 THEN 90
                 ELSE IF alen > 100 THEN 80
                 ELSE IF alen > 50 THEN 70
                 ELSE 60
             adjusted ==
                 IF clen < 50 THEN (base_confidence * 7) \div 10
                 ELSE base_confidence
         IN Min(adjusted, 100)

AnswerLens == {5, 150}
ContextLens == {20, 400}

\* a failure answered with a fixed text that leaves the reason out
generate_answer_NoReason(raised, alen, uncertain, clen) ==
    [answer |-> "generated",
     confidence_score |-> IF raised THEN 0
                          ELSE _calculate_confidence(alen, uncertain, clen)]

\* a failure answered with the fallback confidence of _calculate_confidence
generate_answer_Fallback(raised, alen, uncertain, clen) ==
    [answer |-> IF raised THEN "llm_error" ELSE "generated",
     confidence_score |-> IF raised THEN 50
                          ELSE _calculate_confidence(alen, uncertain, clen)]

\* llm_provider.py 27-86: the answer and its confidence; a failure of the
\* completion call becomes an apology with confidence 0.0
generate_answer(raised, alen, uncertain, clen) ==
    IF raised
    THEN [answer |-> "llm_error", confidence_score |-> 0]
    ELSE [answer |-> "generated",
          confidence_score |-> _calculate_confidence(alen, uncertain, clen)]

\* main.py 470-483 -> qa_service.py 85-199; log_query swallows its failures
AskAnswer(p) ==
    LET r == rq[p] IN
    /\ r.pc = "ask"
    /\ \E cause \in {"none", "embedding", "vector"}, log_failed \in BOOLEAN :
         /\ collection_alive \/ cause # "none"
         /\ \E similar_chunks \in
                 search_similar(collection, r.user_id, max_chunks, cause # "none") :
              LET f == (IF cause = "none" THEN {} ELSE {cause})
                         \cup (IF log_failed THEN {"log"} ELSE {})
                  found == [r EXCEPT !.status = 200, !.results = similar_chunks,
                                     !.retrieved_chunks = Cardinality(similar_chunks)]
              IN
              /\ history' = Seen(FALSE, cause = "vector")
              /\ \/ /\ similar_chunks = {}
                    /\ Respond(p, [found EXCEPT !.answer = "no_documents",
                                                !.failed = f])
                 \/ /\ similar_chunks # {}
                    /\ \E llm_failed \in BOOLEAN, alen \in AnswerLens,
                          uncertain \in BOOLEAN, clen \in ContextLens :
                         LET llm_response ==
                                 generate_answer(llm_failed, alen, uncertain, clen)
                         IN
                         /\ Respond(p, [found EXCEPT
                                !.answer = llm_response.answer,
                                !.llm_called = TRUE,
                                !.confidence_score = llm_response.confidence_score,
                                !.failed = f \cup (IF llm_failed THEN {"llm"} ELSE {})])
    /\ UNCHANGED <<documents, lastrowid, collection, collection_alive>>

\* ------------------------------------------- VectorService, called directly
TopK == {-1, 0, 1, 3}

\* vector_service.py 83-129: add_document(user_id, document_id, filename,
\* doc_chunks) with n = len(doc_chunks); returns n, or re-raises what the
\* embedding model or collection.add raised
VsAddDocument(u, d, n) ==
    LET recs == IngestedBy(BuildRecords(u, d, n), u)
        r == [Idle EXCEPT !.op = "add", !.user_id = u, !.document_id = d,
                          !.repeat = (GetChunks(collection, u, d) = recs)]
    IN
    /\ \/ /\ collection_alive
          /\ collection' = AddRecords(collection, recs)
          /\ last' = [r EXCEPT !.pc = "done", !.success = TRUE,
                               !.chunks_created = n]
       \/ /\ UNCHANGED collection
          /\ last' = [r EXCEPT !.pc = "done", !.raised = "Exception",
                               !.failed = {"embedding"}]
       \/ \E k \in 0..(n - 1) :
             /\ collection_alive \/ k = 0
             /\ collection' = AddRecords(collection,
                                  {c \in recs : c.chunk_index < k})
             /\ last' = [r EXCEPT !.pc = "done", !.raised = "Exception",
                                  !.failed = {"vector"}]
    /\ UNCHANGED <<documents, lastrowid, collection_alive, rq, history, ck, call>>

\* vector_service.py 131-173: search_similar(query, user_id, n_results); every
\* exception ends in `return []`
VsSearchSimilar(u, n_results) ==
    /\ \E raised \in BOOLEAN :
       \E S \in search_similar(collection, u, n_results, raised) :
         last' = [Idle EXCEPT !.pc = "done", !.op = "search", !.user_id = u,
                              !.n_results = n_results, !.success = TRUE,
                              !.results = S,
                              !.failed = IF raised THEN {"vector"} ELSE {}]
    /\ UNCHANGED <<documents, lastrowid, collection, collection_alive, rq, history,
                   ck, call>>

\* vector_service.py 175-210: delete_document(user_id, document_id); returns
\* the number of records deleted, or re-raises
VsDeleteDocument(u, d) ==
    LET r == [Idle EXCEPT !.op = "vs_delete", !.user_id = u, !.document_id = d] IN
    /\ \/ /\ collection_alive
          /\ collection' = VectorDelete(collection, u, d)
          /\ last' = [r EXCEPT !.pc = "done", !.success = TRUE,
                     !.vector_chunks_deleted = Cardinality(GetChunks(collection, u, d))]
       \/ /\ UNCHANGED collection
          /\ last' = [r EXCEPT !.pc = "done", !.raised = "Exception",
                               !.failed = {"vector"}]
    /\ UNCHANGED <<documents, lastrowid, collection_alive, rq, history, ck, call>>

\* the user_id and document_id arguments of the direct calls
VsUsers == {1, 11}
VsDocIds == {1, 11}

NextVector ==
    \/ \E u \in VsUsers, d \in VsDocIds, n \in 1..MaxChunks : VsAddDocument(u, d, n)
    \/ \E u \in VsUsers, n_results \in TopK : VsSearchSimilar(u, n_results)
    \/ \E u \in VsUsers, d \in VsDocIds : VsDeleteDocument(u, d)

SpecVector == Init /\ [][NextVector]_vars

\* ------------------------------- DocumentService._simple_chunk_text(text)
\* a letter, a full stop, and a newline ("n"), which is white space as well
Alphabet == {"a", ".", "n"}

Texts == UNION {[1..n -> Alphabet] : n \in 0..MaxTextLen}

\* settings.chunk_size and settings.chunk_overlap, as the environment sets them
ChunkSizes == {0, 2, 5}
ChunkOverlaps == {-1, 0, 1, 2, 4, 5}

SetMax(S) == CHOOSE x \in S : \A y \in S : y <= x
SetMin(S) == CHOOSE x \in S : \A y \in S : x <= y

\* a slice bound as Python reads it: negative counts from the end, and both
\* ends are clamped to the string
PyIndex(i, len) ==
    IF i < 0 THEN (IF i + len < 0 THEN 0 ELSE i + len)
    ELSE (IF i > len THEN len ELSE i)

\* text[a:b]
Slice(text, a, b) ==
    LET lo == PyIndex(a, Len(text))
        hi == PyIndex(b, Len(text))
    IN IF hi <= lo THEN <<>> ELSE SubSeq(text, lo + 1, hi)

\* str.rfind(c): the highest 0-based index of c, or -1
rfind(str, c) ==
    LET I == {i \in 1..Len(str) : str[i] = c}
    IN IF I = {} THEN -1 ELSE SetMax(I) - 1

\* str.strip()
strip(str) ==
    LET I == {i \in 1..Len(str) : str[i] # "n"}
    IN IF I = {} THEN <<>> ELSE SubSeq(str, SetMin(I), SetMax(I))

\* document_parser.py 260-272: the chunk and the end of the window at start
Window(text, chunk_size, start) ==
    LET end == start + chunk_size
        chunk == Slice(text, start, end)
        last_period == rfind(chunk, ".")
        last_newline == rfind(chunk, "n")
        break_point == IF last_period > last_newline THEN last_period
                       ELSE last_newline
    IN IF end < Len(text) /\ break_point > start + (chunk_size \div 2)
       THEN [chunk |-> Slice(text, start, break_point + 1),
             end |-> break_point + 1, cut |-> TRUE]
       ELSE [chunk |-> chunk, end |-> end, cut |-> FALSE]

\* a return that keeps the blank chunks
NonEmpty_KeepAll(chunks) == chunks

\* document_parser.py 279: [chunk for chunk in chunks if chunk.strip()]
NonEmpty(chunks) == SelectSeq(chunks, LAMBDA c : strip(c) # <<>>)

\* the call _simple_chunk_text(text) under settings (chunk_size, overlap)
InitChunker ==
    /\ InitStores
    /\ call = NoCall
    /\ \E text \in Texts, chunk_size \in ChunkSizes, overlap \in ChunkOverlaps :
         ck = [NotChunking EXCEPT !.pc = "while", !.text = text,
                                  !.chunk_size = chunk_size, !.overlap = overlap]

\* document_parser.py 259-277: one pass of `while start < len(text)`
ChunkLoop ==
    /\ ck.pc = "while"
    /\ Len(ck.chunks) < MaxIterations
    /\ IF ck.start < Len(ck.text)
       THEN LET w == Window(ck.text, ck.chunk_size, ck.start)
                start == w.end - ck.overlap
            IN ck' = [ck EXCEPT
                        !.chunks = Append(@, strip(w.chunk)),
                        !.windows = Append(@, [start |-> ck.start, end |-> w.end,
                                               cut |-> w.cut]),
                        !.end = w.end,
                        !.start = start,
                        !.pc = IF start >= Len(ck.text) THEN "return" ELSE "while"]
       ELSE ck' = [ck EXCEPT !.pc = "return"]
    /\ UNCHANGED <<documents, lastrowid, collection, collection_alive, rq, last,
                   history, call>>

\* document_parser.py 279: the list returned
ChunkReturn ==
    /\ ck.pc = "return"
    /\ ck' = [ck EXCEPT !.pc = "done", !.result = NonEmpty(ck.chunks)]
    /\ UNCHANGED <<documents, lastrowid, collection, collection_alive, rq, last,
                   history, call>>

NextChunker == ChunkLoop \/ ChunkReturn

SpecChunker == InitChunker /\ [][NextChunker]_vars

\* ------------------------------ LLMService._calculate_confidence(answer, context)
\* an answer is words joined by single blanks, followed by `fill` further
\* characters that are neither white space nor part of a phrase;
\* generate_answer strips the completion before it scores it
Words == {"i", "we", "cannot", "CANNOT", "determine", "unclear", "Unclear",
          "answer"}

WordLen(w) ==
    CASE w = "i" -> 1
      [] w = "we" -> 2
      [] w \in {"cannot", "CANNOT", "answer"} -> 6
      [] w \in {"unclear", "Unclear"} -> 7
      [] w = "determine" -> 9

Fills == {0, 40, 90, 190}

Answers ==
    [words : UNION {[1..n -> Words] : n \in 0..MaxWords}, fill : Fills]

\* the context handed over, by its length: "", and either side of 50
ContextChars == {0, 49, 50}

RECURSIVE SumLen(_)
SumLen(ws) == IF ws = <<>> THEN 0 ELSE WordLen(Head(ws)) + SumLen(Tail(ws))

\* len(answer)
AnswerLen(a) ==
    LET n == Len(a.words)
        body == SumLen(a.words) + (IF n > 0 THEN n - 1 ELSE 0)
    IN IF a.fill = 0 THEN body
       ELSE body + a.fill + (IF n > 0 THEN 1 ELSE 0)

\* a match that tells the letter cases apart
lower_AsIs(w) == w

\* str.lower(), word by word
lower(w) ==
    CASE w = "CANNOT" -> "cannot"
      [] w = "Unclear" -> "unclear"
      [] OTHER -> w

\* llm_provider.py 104-108
uncertainty_phrases ==
    {<<"i", "don't", "know">>, <<"i'm", "not", "sure">>, <<"i", "cannot">>,
     <<"unable", "to">>, <<"not", "available">>,
     <<"insufficient", "information">>, <<"can't", "find">>, <<"unclear">>,
     <<"uncertain">>, <<"cannot", "determine">>}

\* phrase in answer_lower
Occurs(phrase, ws) ==
    \E i \in 1..Len(ws) :
        /\ i + Len(phrase) - 1 <= Len(ws)
        /\ \A k \in 1..Len(phrase) : lower(ws[i + k - 1]) = phrase[k]

\* llm_provider.py 110-113: any(phrase in answer_lower for phrase in ...)
Uncertain(a) == \E phrase \in uncertainty_phrases : Occurs(phrase, a.words)

\* a call _calculate_confidence(answer, context)
InitConfidence ==
    /\ InitStores
    /\ ck = NotChunking
    /\ \E answer \in Answers, context \in ContextChars :
         call = [NoCall EXCEPT !.fn = "_calculate_confidence", !.pc = "called",
                               !.args = [answer |-> answer, context |-> context]]

\* llm_provider.py 88-133: the call returns its score
CalculateConfidence ==
    /\ call.fn = "_calculate_confidence"
    /\ call.pc = "called"
    /\ call' = [call EXCEPT
                  !.pc = "returned",
                  !.result = _calculate_confidence(AnswerLen(call.args.answer),
                                                   Uncertain(call.args.answer),
                                                   call.args.context)]
    /\ UNCHANGED <<documents, lastrowid, collection, collection_alive, rq, last,
                   history, ck>>

NextConfidence == CalculateConfidence

SpecConfidence == InitConfidence /\ [][NextConfidence]_vars

\* ------------------------------------ DocumentService.process_document(file_path)
\* the path handed over and what is on the disk behind it: whether the file
\* exists, its extension and size, whether Docling converts it, how many
\* chunks its text gives, whether PyPDF2 can be imported
Paths ==
    [exists : BOOLEAN, ext : {".txt", ".pdf", ".docx"},
     size : {12, max_size + 1}, docling_ok : BOOLEAN, chunks : 0..MaxChunks,
     pypdf2 : BOOLEAN]

\* a value returned
Returns(n) == [raised |-> "none", chunks |-> n]

\* an exception leaving the function
Raises(e) == [raised |-> e, chunks |-> 0]

\* document_parser.py 175-204: open(file_path) raises for a missing file
_process_text_fallback(path) ==
    IF path.exists THEN Returns(path.chunks) ELSE Raises("FileNotFoundError")

\* document_parser.py 206-249: only ImportError is caught here
_process_pdf_fallback(path) ==
    IF ~path.pypdf2 THEN Returns(0)
    ELSE IF path.exists THEN Returns(path.chunks)
    ELSE Raises("FileNotFoundError")

\* document_parser.py 153-173: whatever the helper raises becomes []
_fallback_processing(path) ==
    LET r == IF path.ext = ".txt" THEN _process_text_fallback(path)
             ELSE IF path.ext = ".pdf" THEN _process_pdf_fallback(path)
             ELSE Returns(0)
    IN IF r.raised # "none" THEN Returns(0) ELSE r

\* document_parser.py 34-84: FileNotFoundError and ValueError are raised
\* inside the try whose except hands the path to the fallback
process_document(path) ==
    LET r == IF ~path.exists THEN Raises("FileNotFoundError")
             ELSE IF path.size > max_size THEN Raises("ValueError")
             ELSE IF ~path.docling_ok THEN Raises("ConversionError")
             ELSE Returns(path.chunks)
    IN IF r.raised # "none" THEN _fallback_processing(path) ELSE r

\* a call process_document(file_path)
InitDocument ==
    /\ InitStores
    /\ ck = NotChunking
    /\ \E path \in Paths :
         call = [NoCall EXCEPT !.fn = "process_document", !.pc = "called",
                               !.args = path]

\* document_parser.py 23-84: the call returns or raises
ProcessDocument ==
    /\ call.fn = "process_document"
    /\ call.pc = "called"
    /\ call' = [call EXCEPT !.pc = "returned",
                            !.result = process_document(call.args)]
    /\ UNCHANGED <<documents, lastrowid, collection, collection_alive, rq, last,
                   history, ck>>

NextDocument == ProcessDocument

SpecDocument == InitDocument /\ [][NextDocument]_vars

\* ------------------------------ QueryLogger.log_query / get_user_queries
\* the filenames of uploaded documents: a stem of letters, commas and blanks,
\* and the extension (one token)
Filenames ==
    {stem \o <<".txt">> :
        stem \in UNION {[1..n -> {"a", ",", " "}] : n \in 1..MaxStem}}

\* the lists QAService.ask_question hands to log_query: no filename twice
SourceLists ==
    {<<>>} \cup {<<f>> : f \in Filenames}
           \cup ({<<f, g>> : f, g \in Filenames} \ {<<f, f>> : f \in Filenames})

\* logging_service.py 47: ", ".join(sources) if sources else ""
RECURSIVE Join(_)
Join(sources) ==
    IF sources = <<>> THEN <<>>
    ELSE IF Len(sources) = 1 THEN sources[1]
    ELSE sources[1] \o <<",", " ">> \o Join(Tail(sources))

\* str.split(", "): cut at every ", ", scanning from the left
RECURSIVE Split(_)
Split(str) ==
    LET I == {i \in 1..(Len(str) - 1) : str[i] = "," /\ str[i + 1] = " "}
    IN IF I = {} THEN <<str>>
       ELSE LET i == SetMin(I)
            IN <<SubSeq(str, 1, i - 1)>> \o Split(SubSeq(str, i + 2, Len(str)))

\* logging_service.py 93: row["sources"].split(", ") if row["sources"] else []
ReadSources(sources_str) == IF sources_str = <<>> THEN <<>> ELSE Split(sources_str)

\* a call log_query(..., sources)
InitLog ==
    /\ InitStores
    /\ ck = NotChunking
    /\ \E sources \in SourceLists :
         call = [NoCall EXCEPT !.fn = "log_query", !.pc = "called",
                               !.args = sources]

\* logging_service.py 45-59: the record is inserted with the joined sources,
\* or the INSERT raises and log_query prints the error
LogQuery ==
    /\ call.fn = "log_query"
    /\ call.pc = "called"
    /\ \/ call' = [call EXCEPT !.pc = "logged", !.result = Join(call.args)]
       \/ call' = [call EXCEPT !.pc = "not_logged"]
    /\ UNCHANGED <<documents, lastrowid, collection, collection_alive, rq, last,
                   history, ck>>

\* logging_service.py 72-97: the record read back, or [] when the SELECT raises
GetUserQueries ==
    /\ call.fn = "log_query"
    /\ call.pc = "logged"
    /\ \/ call' = [call EXCEPT !.pc = "read", !.result = ReadSources(call.result)]
       \/ call' = [call EXCEPT !.pc = "not_read", !.result = <<>>]
    /\ UNCHANGED <<documents, lastrowid, collection, collection_alive, rq, last,
                   history, ck>>

NextLog == LogQuery \/ GetUserQueries

SpecLog == InitLog /\ [][NextLog]_vars

\* no handler is running
Alone == \A p \in Procs : rq[p].pc = "idle"

\* one request at a time: the one event loop runs a handler to its response,
\* so only the first slot is ever taken
Next ==
    \E p \in {1} :
        \/ \E u \in Users : UploadInsert(p, u)
        \/ UploadProcess(p)
        \/ UploadCleanup(p)
        \/ UploadExcept(p)
        \/ UploadUpdate(p)
        \/ \E u \in Users, d \in DocIds : DeleteSelect(p, u, d)
        \/ DeleteVector(p)
        \/ DeleteSql(p)
        \/ ResetVector(p)
        \/ ResetSql(p)
        \/ \E u \in Users : AskCount(p, u)
        \/ AskAnswer(p)

Spec == Init /\ [][Next]_vars

\* requests served by different workers: the handlers interleave
NextInterleaved ==
    \E p \in Procs :
        \/ \E u \in Users : UploadInsert(p, u)
        \/ UploadProcess(p)
        \/ UploadCleanup(p)
        \/ UploadExcept(p)
        \/ UploadUpdate(p)
        \/ \E u \in Users, d \in DocIds : DeleteSelect(p, u, d)
        \/ DeleteVector(p)
        \/ DeleteSql(p)
        \/ ResetVector(p)
        \/ ResetSql(p)
        \/ \E u \in Users : AskCount(p, u)
        \/ AskAnswer(p)

SpecInterleaved == Init /\ [][NextInterleaved]_vars

\* uploads and deletes only, interleaved
NextIngestDelete ==
    \E p \in Procs :
        \/ \E u \in Users : UploadInsert(p, u)
        \/ UploadProcess(p)
        \/ UploadCleanup(p)
        \/ UploadExcept(p)
        \/ UploadUpdate(p)
        \/ \E u \in Users, d \in DocIds : DeleteSelect(p, u, d)
        \/ DeleteVector(p)
        \/ DeleteSql(p)

SpecIngestDelete == Init /\ [][NextIngestDelete]_vars

\* ------------------------------------------------------------------ claims
Returned(op) == last.pc = "done" /\ last.op = op

Quiescent == Alone

RowsOf(u, d) == SelectDocument(documents, d, u)

\* C1: whatever tenants ingested and deleted before, every chunk that
\* search_similar hands to ask for tenant A carries user_id A in its metadata
\* and was stored by an upload of A
C1_TenantIsolation ==
    Returned("ask") =>
        \A c \in last.results :
            c.user_id = last.user_id /\ c.ingested_by = last.user_id

\* an ask that retrieved chunks while the collection holds another tenant's
C1_Witness ==
    /\ Returned("ask")
    /\ last.results # {}
    /\ \E c \in collection : c.user_id # last.user_id

C3_RowsMatchIndex ==
    (Quiescent /\ last.op \in {"upload", "delete", "reset"}) =>
        \A r \in documents :
            r.chunks_count > 0 =>
                Cardinality(GetChunks(collection, r.user_id, r.id)) = r.chunks_count

C5_DeleteRemovesBoth ==
    (Returned("delete") /\ last.status = 200) =>
        /\ RowsOf(last.user_id, last.document_id) = {}
        /\ GetChunks(collection, last.user_id, last.document_id) = {}

C7_PayloadTellsFailure ==
    Returned("delete") =>
        /\ ("vector" \in last.failed /\ "sql" \notin last.failed) =>
               /\ last.status \in {200, 404}
               /\ RowsOf(last.user_id, last.document_id) = {}
        /\ last.status = 200 =>
               ("vector" \in last.failed <=> last.vector_chunks_deleted = 0)

\* C8 as stated: after an upload of d ended in an error, a delete of d by
\* the same tenant, no store call raising, leaves no row and no record of d
C8_DeleteConverges ==
    (Returned("delete") /\ last.after_failed_ingest /\ last.failed = {}) =>
        /\ RowsOf(last.user_id, last.document_id) = {}
        /\ GetChunks(collection, last.user_id, last.document_id) = {}

\* C9 as stated: an upload answered 200 with chunks_created = n has n records
\* under (user_id, document_id) and a row with chunks_count = n; while an
\* upload has not indexed its chunks its row has chunks_count = 0
C9_SuccessMeansCounted ==
    /\ (Returned("upload") /\ last.status = 200) =>
          /\ Cardinality(GetChunks(collection, last.user_id, last.document_id))
                 = last.chunks_created
          /\ \E r \in RowsOf(last.user_id, last.document_id) :
                 r.chunks_count = last.chunks_created
    /\ \A p \in Procs :
          rq[p].pc \in {"process", "cleanup", "except"} =>
              \A r \in RowsOf(rq[p].user_id, rq[p].document_id) :
                  r.chunks_count = 0

\* C10 as stated: no failure of a dependency during ask is answered with an
\* error; the answer is well-formed, with confidence 0.0 after a failure
C10_AskNeverErrors ==
    Returned("ask") =>
        /\ last.status = 200
        /\ last.answer # "none"
        /\ last.failed # {} => last.confidence_score = 0

\* C10 amended: a failure of the embedding, the vector search or the text
\* completion is answered 200 with confidence 0.0, a failure of the query log
\* leaves the answer as it is, and a failure of the metadata store (the
\* COUNT of the caller's documents) is answered with a 500
C10_AskDegrades ==
    Returned("ask") =>
        /\ last.status = (IF "sql" \in last.failed THEN 500 ELSE 200)
        /\ last.status = 200 =>
              /\ last.answer \in {"no_documents", "llm_error", "generated"}
              /\ last.retrieved_chunks = Cardinality(last.results)
              /\ (last.failed \cap {"embedding", "vector", "llm"} # {}) =>
                     last.confidence_score = 0
              /\ (last.failed \cap {"embedding", "vector"} # {}) =>
                     last.answer = "no_documents"
              /\ "llm" \in last.failed => last.answer = "llm_error"

\* an ask that retrieved chunks and whose completion call raised
C10_Witness ==
    /\ Returned("ask")
    /\ last.retrieved_chunks > 0
    /\ "llm" \in last.failed

\* C11: an ask of a tenant without documents (no row, or no indexed chunk),
\* the COUNT of the handler not raising, is answered 200 with
\* retrieved_chunks = 0, confidence_score = 0.0 and the answer that there are
\* no documents, and generate_answer is not called
C11_NoDocumentsAnswer ==
    (/\ Returned("ask")
     /\ "sql" \notin last.failed
     /\ \/ {row \in documents : row.user_id = last.user_id} = {}
        \/ {c \in collection : c.user_id = last.user_id} = {}) =>
        /\ last.status = 200
        /\ last.retrieved_chunks = 0
        /\ last.results = {}
        /\ last.confidence_score = 0
        /\ last.answer = "no_documents"
        /\ ~last.llm_called

\* an ask answered for a tenant that has no row while the index still holds
\* chunks under its user_id
C11_Witness ==
    /\ Returned("ask")
    /\ last.status = 200
    /\ {row \in documents : row.user_id = last.user_id} = {}
    /\ {c \in collection : c.user_id = last.user_id} # {}

\* C12: when the completion call raises during an ask that retrieved at
\* least one chunk, the ask is answered 200, the answer is the apology that
\* carries str(e), and confidence_score is 0.0
C12_CompletionFailureAnswered ==
    (Returned("ask") /\ "llm" \in last.failed) =>
        /\ last.retrieved_chunks >= 1
        /\ last.status = 200
        /\ last.answer = "llm_error"
        /\ last.confidence_score = 0

\* the completion call raised, and so did the query log after it
C12_Witness ==
    /\ Returned("ask")
    /\ last.failed = {"llm", "log"}
    /\ last.llm_called

\* C13: add_document called again with the chunk set that (user_id,
\* document_id) already holds succeeds, returns n, and leaves exactly the n
\* records of that set under (user_id, document_id)
C13_AddTwiceIdempotent ==
    (Returned("add") /\ last.repeat /\ last.success) =>
        /\ last.raised = "none"
        /\ last.chunks_created =
               Cardinality(GetChunks(collection, last.user_id, last.document_id))
        /\ GetChunks(collection, last.user_id, last.document_id) =
               IngestedBy(BuildRecords(last.user_id, last.document_id,
                                       last.chunks_created), last.user_id)

\* a second add of two chunks, answered with success
C13_Witness ==
    /\ Returned("add")
    /\ last.repeat
    /\ last.success
    /\ last.chunks_created = 2

\* C14 as stated: search_similar called with n_results < 1 fails with
\* InvalidArgument instead of returning a result list
C14_TopKRejected ==
    (Returned("search") /\ last.n_results < 1) =>
        /\ last.raised = "InvalidArgument"
        /\ ~last.success

\* C15 as stated: the reset path runs only for an authorised administrative
\* or test caller; a request without valid credentials never gets as far as
\* the reset of either store
C15_ResetGated ==
    /\ Returned("reset") => last.credentials = "admin"
    /\ \A p \in Procs : rq[p].op = "reset" => rq[p].credentials = "admin"

\* C16 as stated: after the reset path has returned, whatever the outcome of
\* its store calls, the collection exists and holds no record and the
\* documents table holds no row
C16_ResetEmptiesBoth ==
    Returned("reset") =>
        /\ collection_alive
        /\ collection = {}
        /\ documents = {}

\* max_size > 0 and 0 <= overlap < max_size
ValidConfiguration == ck.chunk_size > 0 /\ 0 <= ck.overlap /\ ck.overlap < ck.chunk_size

\* C17 as stated: under a valid configuration every pass of the loop moves
\* the window start forward or ends the loop
C17_StartAdvances ==
    [][(ck.pc = "while" /\ ValidConfiguration /\ ck' # ck) =>
          (ck'.start > ck.start \/ ck'.pc # "while")]_vars

\* the call has gone past its first statement
Chunked == ck.pc \in {"return", "done"} \/ (ck.pc = "while" /\ ck.chunks # <<>>)

\* C18 as stated: under a configuration that is not valid the chunker fails
\* with InvalidConfiguration and produces no chunk
C18_InvalidRejected ==
    (Chunked /\ ~ValidConfiguration) =>
        (ck.raised = "InvalidConfiguration" /\ ck.chunks = <<>> /\ ck.result = <<>>)

\* C19 as stated: a text shorter than max_size that is not all white space
\* comes back as exactly one chunk, the trimmed text
C19_ShortTextOneChunk ==
    (ck.pc = "done" /\ ValidConfiguration /\ Len(ck.text) < ck.chunk_size
        /\ strip(ck.text) # <<>>)
    => ck.result = <<strip(ck.text)>>

\* the windows taken so far leave no gap: the first starts the text, each
\* later one starts at or before the end of the one before it
Contiguous ==
    \A i \in 1..Len(ck.windows) :
        /\ ck.windows[i].start >= 0
        /\ ck.windows[i].start <= (IF i = 1 THEN 0 ELSE ck.windows[i - 1].end)

\* the last window reaches the end of the text
ReachesEnd ==
    Len(ck.text) = 0 \/
        (ck.windows # <<>> /\ ck.windows[Len(ck.windows)].end >= Len(ck.text))

\* every chunk is its window of the text, trimmed
ChunksAreWindows ==
    \A i \in 1..Len(ck.windows) :
        ck.chunks[i] = strip(SubSeq(ck.text, ck.windows[i].start + 1,
                                   IF ck.windows[i].end > Len(ck.text)
                                   THEN Len(ck.text) ELSE ck.windows[i].end))

\* the chunks returned are the trimmed windows that are not blank, in order
ResultIsChunks == ck.result = SelectSeq(ck.chunks, LAMBDA c : c # <<>>)

Covers == Contiguous /\ ReachesEnd /\ ChunksAreWindows /\ ResultIsChunks

\* what holds of the calls that return
ReturnedCovers == (ck.pc = "done" /\ ValidConfiguration) => Covers

\* C20 as stated: under a valid configuration the windows leave no gap and
\* the chunks returned cover the text; windows that each start at or before
\* the end of the one before and end by reaching the end of the text number
\* at most one per character, so by then the call has returned
C20_ChunksCover ==
    ValidConfiguration =>
        /\ Contiguous
        /\ ChunksAreWindows
        /\ (ck.pc = "done" => Covers)
        /\ (Len(ck.windows) > Len(ck.text) => ck.pc # "while")

\* every chunk returned is trimmed, not blank, and no longer than chunk_size
ChunksBounded ==
    \A i \in 1..Len(ck.result) :
        /\ ck.result[i] # <<>>
        /\ strip(ck.result[i]) = ck.result[i]
        /\ Len(ck.result[i]) <= ck.chunk_size

Scored == call.fn = "_calculate_confidence" /\ call.pc = "returned"

\* the phrases the text of C22 names
NamedPhrases ==
    {<<"i", "don't", "know">>, <<"cannot">>, <<"unclear">>,
     <<"insufficient", "information">>}

\* the words of ws, in any letter case, hold the phrase
Holds(phrase, ws) ==
    \E i \in 1..Len(ws) :
        /\ i + Len(phrase) - 1 <= Len(ws)
        /\ \A k \in 1..Len(phrase) :
               \/ ws[i + k - 1] = phrase[k]
               \/ (ws[i + k - 1] = "CANNOT" /\ phrase[k] = "cannot")
               \/ (ws[i + k - 1] = "Unclear" /\ phrase[k] = "unclear")

\* C22 as stated: an answer of at least 10 characters that holds one of the
\* phrases "i don't know", "cannot", "unclear", "insufficient information",
\* in any letter case, scores 0.3 whatever its length
C22_NamedPhraseScoresLow ==
    (/\ Scored
     /\ AnswerLen(call.args.answer) >= 10
     /\ \E phrase \in NamedPhrases : Holds(phrase, call.args.answer.words))
    => call.result = 30

\* the phrases _calculate_confidence looks for
ListedPhrases ==
    {<<"i", "don't", "know">>, <<"i'm", "not", "sure">>, <<"i", "cannot">>,
     <<"unable", "to">>, <<"not", "available">>,
     <<"insufficient", "information">>, <<"can't", "find">>, <<"unclear">>,
     <<"uncertain">>, <<"cannot", "determine">>}

\* C22, amended: an answer of at least 10 characters that holds, in any
\* letter case, one of the ten phrases of the list in _calculate_confidence
\* scores 0.3 whatever its length and whatever the context; "cannot" alone is
\* not one of them
C22_ListedPhraseScoresLow ==
    (/\ Scored
     /\ AnswerLen(call.args.answer) >= 10
     /\ \E phrase \in ListedPhrases : Holds(phrase, call.args.answer.words))
    => call.result = 30

\* a long answer with "CANNOT determine" in it, scored 0.3
C22_Witness ==
    /\ Scored
    /\ AnswerLen(call.args.answer) > 200
    /\ Holds(<<"cannot", "determine">>, call.args.answer.words)
    /\ \E i \in 1..Len(call.args.answer.words) :
           call.args.answer.words[i] = "CANNOT"
    /\ call.result = 30

\* C23: an upload whose extension is neither .txt nor .pdf, or whose size is
\* above the limit, is answered 400 in the very step in which it arrives,
\* with no row inserted and no chunk indexed, and no upload of such a file is
\* ever under way
C23_RejectedUploadNoEffect ==
    [][/\ \A p \in Procs :
            (rq'[p].op = "upload" /\ rq'[p].pc # "idle") =>
                (rq'[p].filename \in {"a.txt", "a.PDF"}
                    /\ rq'[p].size <= 10 * 1024 * 1024)
       /\ (last'.op = "upload" /\ last'.pc = "done"
             /\ (last'.filename \notin {"a.txt", "a.PDF"}
                    \/ last'.size > 10 * 1024 * 1024)) =>
            /\ last'.status = 400
            /\ last'.document_id = 0
            /\ documents' = documents
            /\ lastrowid' = lastrowid
            /\ collection' = collection
            /\ \A p \in Procs : rq[p].pc = "idle" => rq'[p].pc = "idle"]_vars

\* an upload of a .docx file turned away while a document is stored
C23_Witness ==
    /\ Returned("upload")
    /\ last.filename = "a.docx"
    /\ last.status = 400
    /\ documents # {}
    /\ collection # {}

\* C24 as stated: processing a path that does not exist fails with
\* FileNotFoundError and returns no list of chunks
C24_MissingFileRaises ==
    (call.fn = "process_document" /\ call.pc = "returned" /\ ~call.args.exists)
    => call.result.raised = "FileNotFoundError"

\* the answer scored holds none of the phrases of the list
PlainAnswer ==
    \A phrase \in ListedPhrases : ~Holds(phrase, call.args.answer.words)

\* the score C25 gives an answer of n characters, in hundredths
TierOf(n) ==
    IF n < 10 THEN 10
    ELSE IF n > 200 THEN 90
    ELSE IF n > 100 THEN 80
    ELSE IF n > 50 THEN 70
    ELSE 60

\* C25: an answer without uncertainty phrase, scored with a context of at
\* least 50 characters, gets 0.1 below 10 characters, 0.9 above 200, 0.8 above
\* 100, 0.7 above 50 and 0.6 otherwise, so that the same words with less
\* text after them never score higher
C25_LengthTiers ==
    (Scored /\ PlainAnswer /\ call.args.context >= 50) =>
        /\ call.result = TierOf(AnswerLen(call.args.answer))
        /\ \A fill \in Fills :
               fill < call.args.answer.fill =>
                   TierOf(AnswerLen([call.args.answer EXCEPT !.fill = fill]))
                       <= call.result

\* an answer of exactly 200 characters, scored 0.8
C25_Witness ==
    /\ Scored
    /\ PlainAnswer
    /\ call.args.context >= 50
    /\ AnswerLen(call.args.answer) = 200
    /\ call.result = 80

\* the value the answer text alone determines, in hundredths
AnswerValue ==
    IF AnswerLen(call.args.answer) < 10 THEN 10
    ELSE IF ~PlainAnswer THEN 30
    ELSE TierOf(AnswerLen(call.args.answer))

\* C26 as stated: with a context that is empty or shorter than 50 characters
\* the score is 0.7 times the value the answer alone determines, whichever
\* of 0.1, 0.3, 0.6, 0.7, 0.8, 0.9 that is, and lies in [0.0, 1.0]
C26_ShortContextScales ==
    Scored =>
        /\ call.args.context < 50 => call.result * 10 = AnswerValue * 7
        /\ call.result >= 0 /\ call.result <= 100

\* C26, amended: with a context that is empty or shorter than 50 characters
\* the score is 0.7 times the length tier (0.6, 0.7, 0.8 or 0.9) of an answer
\* of at least 10 characters without uncertainty phrase; the 0.1 of a shorter
\* answer and the 0.3 of an uncertain one are returned as they are; the
\* score lies in [0.0, 1.0]
C26_ShortContextScalesTiers ==
    Scored =>
        /\ (call.args.context < 50 /\ AnswerValue \in {60, 70, 80, 90}) =>
               call.result * 10 = AnswerValue * 7
        /\ AnswerValue \in {10, 30} => call.result = AnswerValue
        /\ call.result >= 0 /\ call.result <= 100

\* a long plain answer scored with a context of 49 characters: 0.63
C26_Witness ==
    /\ Scored
    /\ call.args.context = 49
    /\ PlainAnswer
    /\ AnswerLen(call.args.answer) > 200
    /\ call.result = 63

\* the 0-based positions of the full stops and line breaks of the text
\* within [a, b)
Terminators(a, b) ==
    {j \in 0..(Len(ck.text) - 1) : a <= j /\ j < b /\ ck.text[j + 1] \in {".", "n"}}

\* C27 as stated: every window the chunker has shortened, the first or a
\* later one, ends right after the last full stop or line break of the
\* chunk_size characters from its start, and that one lies more than half
\* of chunk_size past the start
C27_CutAtLastTerminator ==
    ValidConfiguration =>
        \A i \in 1..Len(ck.windows) :
            ck.windows[i].cut =>
                LET w == ck.windows[i]
                    T == Terminators(w.start, w.start + ck.chunk_size)
                IN /\ T # {}
                   /\ w.end = SetMax(T) + 1
                   /\ SetMax(T) - w.start > ck.chunk_size \div 2

\* C28: the id add_document gives a record is an injective function of
\* (user_id, document_id, chunk_index); no two records of the index share
\* that identity or an id; and after a call that succeeded with n chunks the
\* index holds, for each of 0, 1, ..., n-1, the record of that chunk_index
\* with the user_id and document_id of the call
C28_RecordIdentity ==
    /\ \A u1, u2 \in VsUsers, d1, d2 \in VsDocIds, i1, i2 \in 0..MaxChunks :
           ChunkId(u1, d1, i1) = ChunkId(u2, d2, i2) =>
               <<u1, d1, i1>> = <<u2, d2, i2>>
    /\ \A c1, c2 \in collection :
           (\/ c1.id = c2.id
            \/ <<c1.user_id, c1.document_id, c1.chunk_index>> =
                   <<c2.user_id, c2.document_id, c2.chunk_index>>) => c1 = c2
    /\ (Returned("add") /\ last.success) =>
           \A i \in 0..(last.chunks_created - 1) :
               \E c \in collection :
                   /\ c.user_id = last.user_id
                   /\ c.document_id = last.document_id
                   /\ c.chunk_index = i
                   /\ c.ingested_by = last.user_id

\* a document 1 of user 11 added while document 11 of user 1 is indexed
C28_Witness ==
    /\ Returned("add")
    /\ last.success
    /\ last.user_id = 11
    /\ last.document_id = 1
    /\ last.chunks_created = 2
    /\ \E c \in collection : c.user_id = 1 /\ c.document_id = 11

\* C29: a delete by tenant A of a document_id whose row belongs to another
\* tenant, or to none, is answered in the step in which it arrives, before
\* any call to the vector index, with 404 "Document not found" (500 if the
\* SELECT itself raises), and leaves every row and every record as it was
C29_ForeignDeleteNoEffect ==
    [][(/\ last'.pc = "done"
        /\ last'.op = "delete"
        /\ \A r \in documents :
               ~(r.id = last'.document_id /\ r.user_id = last'.user_id)) =>
          /\ last'.status = (IF "sql" \in last'.failed THEN 500 ELSE 404)
          /\ last'.vector_chunks_deleted = 0
          /\ "vector" \notin last'.failed
          /\ history'.started = history.started + 1
          /\ documents' = documents
          /\ collection' = collection]_vars

\* a delete answered 404 while the row of that document_id, with its chunks,
\* is another tenant's
C29_Witness ==
    /\ Returned("delete")
    /\ last.status = 404
    /\ \E r \in documents :
           /\ r.id = last.document_id
           /\ r.user_id # last.user_id
           /\ \E c \in collection :
                  c.user_id = r.user_id /\ c.document_id = r.id

\* C30 as stated: the sources of a record that log_query stored come back
\* from get_user_queries as the same list in the same order
C30_SourcesRoundTrip ==
    (call.fn = "log_query" /\ call.pc = "read") => call.result = call.args
====
